---- MODULE Spec2Model ----
(***************************************************************************)
(* A model of nexus_uploader.py: the scan of a local M2 repository tree,   *)
(* the group/artifact/version filter, the per-artifact version limit kept  *)
(* in a heapq min-heap, and the per-record upload to a Nexus 3 server.     *)
(*                                                                         *)
(* Python strings are sequences of one-character strings, so that join,    *)
(* split, replace and pattern search are computed and not assumed.         *)
(***************************************************************************)
EXTENDS Integers, Sequences, FiniteSets, TLC

VARIABLES
    self,               \* the uploader's configuration (BaseNexusUploader.__init__)
    st_mtime,           \* the file system: descriptor path -> modification time
    pending,            \* descriptor paths the directory walk has not yielded yet
    artifact_versions,  \* dict key -> heap, as a sequence in insertion order
    total,              \* the count _filtered_maven_versions returns
    current,            \* upload()'s counter of records passed to _upload_single
    pc,                 \* "scan", "upload", "done" or "raised"
    error,              \* the exception that ended the run, or "none"
    yielded,            \* history: records m2_maven_info has yielded
    rejected,           \* history: records a filter skipped (the three continue)
    discarded,          \* history: records dropped by the version limit
    uploaded,           \* history: records passed to _upload_single, in order
    heads,              \* HEAD requests of the latest _upload_single call
    posted,             \* the latest POST request, or NoRequest
    handles             \* file objects opened by encode_file and not closed

vars == <<self, st_mtime, pending, artifact_versions, total, current, pc, error,
          yielded, rejected, discarded, uploaded, heads, posted, handles>>

-----------------------------------------------------------------------------
(* Bounds of the model.                                                     *)

\* Modification times are drawn from 1..MaxTime.
MaxTime == 3

\* The largest number of descriptor files in a repository tree.
MaxPoms == 3

\* The largest number of version directories in a tree whose directories
\* hold assets beside the descriptor.
MaxAssetDirs == 2

\* Configured version limits are drawn from 0..MaxLimit.
MaxLimit == 2

\* sys.maxsize, the default of the constructor's limit argument: larger than
\* the length of any list.
sys_maxsize == 2147483647

-----------------------------------------------------------------------------
(* Python values.                                                           *)

None == [none |-> TRUE]

Some(x) == [none |-> FALSE, val |-> x]

IsNone(x) == x.none

\* String literals.
S_pom == <<"p", "o", "m">>

S_jar == <<"j", "a", "r">>

S_exe == <<"e", "x", "e">>

S_sources == <<"s", "o", "u", "r", "c", "e", "s">>

S_javadoc == <<"j", "a", "v", "a", "d", "o", "c">>

\* sep.join(parts)
RECURSIVE join(_, _)
join(sep, parts) ==
    IF parts = <<>> THEN <<>>
    ELSE IF Len(parts) = 1 THEN parts[1]
    ELSE parts[1] \o sep \o join(sep, Tail(parts))

RECURSIVE SplitFrom(_, _, _)
SplitFrom(s, ch, cur) ==
    IF s = <<>> THEN <<cur>>
    ELSE IF Head(s) = ch THEN <<cur>> \o SplitFrom(Tail(s), ch, <<>>)
    ELSE SplitFrom(Tail(s), ch, Append(cur, Head(s)))

\* s.split(ch)
split(s, ch) == SplitFrom(s, ch, <<>>)

\* list(filter(bool, parts))
filter_bool(parts) == SelectSeq(parts, LAMBDA x : x # <<>>)

\* s.replace(a, b) for one-character a and b
replace(s, a, b) == [i \in 1..Len(s) |-> IF s[i] = a THEN b ELSE s[i]]

\* s.endswith(suffix)
endswith(s, suffix) ==
    /\ Len(s) >= Len(suffix)
    /\ SubSeq(s, Len(s) - Len(suffix) + 1, Len(s)) = suffix

\* pattern.search(s) for a pattern of literal characters: found anywhere in s
search(pattern, s) ==
    \E i \in 0..(Len(s) - Len(pattern)) : SubSeq(s, i + 1, i + Len(pattern)) = pattern

\* the index of the last "." of a file name, 0 when there is none
RECURSIVE rfind_dot(_, _)
rfind_dot(name, i) ==
    IF i = 0 THEN 0
    ELSE IF name[i] = "." THEN i
    ELSE rfind_dot(name, i - 1)

\* PurePath.stem: the name without its last suffix
stem(name) ==
    LET i == rfind_dot(name, Len(name))
    IN  IF 1 < i /\ i < Len(name) THEN SubSeq(name, 1, i - 1) ELSE name

\* PurePath.with_suffix on the file name
with_suffix(name, suffix) == stem(name) \o suffix

-----------------------------------------------------------------------------
(* MavenInfo and the directory walk.                                        *)

\* Faulty variant of __lt__: the comparison turned round, which keeps the
\* oldest versions instead of the latest.
lt_reversed(a, b) == a.mtime > b.mtime

\* MavenInfo.__lt__
lt(a, b) == a.mtime < b.mtime

\* BaseNexusUploader.list_files with the ".pom" filter: the files of the tree
\* whose name ends with ".pom"
list_files(files) ==
    {p \in files : endswith(p[Len(p)], <<".">> \o S_pom)}

\* rpath_parts of a descriptor: the relative path written out and split again
rpath_parts(pom) == filter_bool(split(join(<<"/">>, pom), "/"))

\* Faulty variant of the slice: rpath_parts[:-2], which takes the artifactId
\* into the groupId.
all_but_last2(parts) ==
    IF Len(parts) > 2 THEN SubSeq(parts, 1, Len(parts) - 2) ELSE <<>>

\* rpath_parts[:-3]
all_but_last3(parts) ==
    IF Len(parts) > 3 THEN SubSeq(parts, 1, Len(parts) - 3) ELSE <<>>

\* the classifier files found beside a descriptor, per file type in order
RECURSIVE classifier_files(_, _, _, _, _)
classifier_files(files, parent, jarname, classifier, types) ==
    IF types = <<>> THEN <<>>
    ELSE LET classifier_file ==
                 stem(jarname) \o <<"-">> \o classifier \o <<".">> \o Head(types)
             rest == classifier_files(files, parent, jarname, classifier, Tail(types))
         IN  IF Append(parent, classifier_file) \in files
             THEN <<classifier_file>> \o rest
             ELSE rest

\* One record of m2_maven_info, for a descriptor with at least three relative
\* path segments (with fewer, rpath_parts[-3] raises IndexError: see Scan).
m2_maven_info(cfg, mtimes, pom) ==
    LET parts   == rpath_parts(pom)
        n       == Len(parts)
        parent  == SubSeq(pom, 1, Len(pom) - 1)
        name    == pom[Len(pom)]
        jarname == with_suffix(name, <<".">> \o S_jar)
        found   == [c \in {cfg.classifiers[i] : i \in 1..Len(cfg.classifiers)} |->
                        classifier_files(cfg.m2_path, parent, jarname, c, cfg.types)]
    IN  [path        |-> parent,
         pom         |-> name,
         group_id    |-> join(<<".">>, all_but_last3(parts)),
         artifact_id |-> parts[n - 2],
         version     |-> parts[n - 1],
         mtime       |-> mtimes[pom],
         jar         |-> IF Append(parent, jarname) \in cfg.m2_path
                         THEN Some(jarname) ELSE None,
         classifiers |-> [c \in {d \in DOMAIN found : Len(found[d]) > 0} |-> found[c]]]

-----------------------------------------------------------------------------
(* heapq, as CPython implements it, ordered by MavenInfo.__lt__.            *)
(* Positions are 0-based as in the source; heap[pos + 1] is heap[pos].      *)

RECURSIVE siftdown_loop(_, _, _, _)
siftdown_loop(heap, startpos, pos, newitem) ==
    IF pos > startpos
    THEN LET parentpos == (pos - 1) \div 2
             parent    == heap[parentpos + 1]
         IN  IF lt(newitem, parent)
             THEN siftdown_loop([heap EXCEPT ![pos + 1] = parent],
                                startpos, parentpos, newitem)
             ELSE [heap EXCEPT ![pos + 1] = newitem]
    ELSE [heap EXCEPT ![pos + 1] = newitem]

siftdown(heap, startpos, pos) == siftdown_loop(heap, startpos, pos, heap[pos + 1])

RECURSIVE siftup_loop(_, _, _, _, _)
siftup_loop(heap, startpos, pos, childpos, newitem) ==
    IF childpos < Len(heap)
    THEN LET rightpos == childpos + 1
             smaller  == IF rightpos < Len(heap)
                            /\ ~lt(heap[childpos + 1], heap[rightpos + 1])
                         THEN rightpos ELSE childpos
         IN  siftup_loop([heap EXCEPT ![pos + 1] = heap[smaller + 1]],
                         startpos, smaller, 2 * smaller + 1, newitem)
    ELSE siftdown([heap EXCEPT ![pos + 1] = newitem], startpos, pos)

siftup(heap, pos) == siftup_loop(heap, pos, pos, 2 * pos + 1, heap[pos + 1])

heappush(heap, item) == siftdown(Append(heap, item), 0, Len(heap))

\* the heap after heapreplace(heap, item); the call returns heap[0]
heapreplace(heap, item) == siftup([heap EXCEPT ![1] = item], 0)

-----------------------------------------------------------------------------
(* The filter and the version limit: _filtered_maven_versions.              *)

\* the truth value of a pattern argument: None is false, a compiled pattern true
truthy(pattern) == ~IsNone(pattern)

\* pattern.match(s) for a pattern of literal characters: found at the start
match(pattern, s) ==
    Len(s) >= Len(pattern) /\ SubSeq(s, 1, Len(pattern)) = pattern

\* Faulty variant of the filters: pattern.match in place of pattern.search,
\* which finds a pattern at the start of the field only.
skipped_match(cfg, info) ==
    \/ truthy(cfg.include_group_pattern)
         /\ ~match(cfg.include_group_pattern.val, info.group_id)
    \/ truthy(cfg.include_artifact_pattern)
         /\ ~match(cfg.include_artifact_pattern.val, info.artifact_id)
    \/ truthy(cfg.include_version_pattern)
         /\ ~match(cfg.include_version_pattern.val, info.version)

\* the three filters of the loop body: TRUE when a continue skips the record
skipped(cfg, info) ==
    \/ truthy(cfg.include_group_pattern)
         /\ ~search(cfg.include_group_pattern.val, info.group_id)
    \/ truthy(cfg.include_artifact_pattern)
         /\ ~search(cfg.include_artifact_pattern.val, info.artifact_id)
    \/ truthy(cfg.include_version_pattern)
         /\ ~search(cfg.include_version_pattern.val, info.version)

maven_artifact_key(info) == info.group_id \o <<":">> \o info.artifact_id

\* the position of a key in the dict, 0 when it is not there
key_index(dict, key) ==
    IF \E i \in 1..Len(dict) : dict[i].key = key
    THEN CHOOSE i \in 1..Len(dict) : dict[i].key = key
    ELSE 0

\* defaultdict(list).__getitem__: a missing key is inserted with an empty list
defaultdict_get(dict, key) ==
    IF key_index(dict, key) = 0
    THEN Append(dict, [key |-> key, versions |-> <<>>])
    ELSE dict

\* Faulty variant of the heap step: a candidate that ties with the minimum
\* is dropped too (<= in place of <).
limit_step_strict(limit, minheap, info) ==
    IF IsNone(limit)
    THEN [heap |-> minheap, dropped |-> None, pushed |-> FALSE, raised |-> "TypeError"]
    ELSE IF Len(minheap) >= limit.val
    THEN IF minheap = <<>>
         THEN [heap |-> minheap, dropped |-> None, pushed |-> FALSE,
               raised |-> "IndexError"]
         ELSE IF ~lt(minheap[1], info)
         THEN [heap |-> minheap, dropped |-> Some(info), pushed |-> FALSE,
               raised |-> "none"]
         ELSE [heap |-> heapreplace(minheap, info), dropped |-> Some(minheap[1]),
               pushed |-> FALSE, raised |-> "none"]
    ELSE [heap |-> heappush(minheap, info), dropped |-> None, pushed |-> TRUE,
          raised |-> "none"]

\* The heap step of the loop body on the key's list. The result names the
\* new list, the record dropped (None when none is) and the exception raised.
limit_step(limit, minheap, info) ==
    IF IsNone(limit)
    THEN \* len(minheap) >= None
         [heap |-> minheap, dropped |-> None, pushed |-> FALSE, raised |-> "TypeError"]
    ELSE IF Len(minheap) >= limit.val
    THEN IF minheap = <<>>
         THEN \* minheap[0] of an empty list
              [heap |-> minheap, dropped |-> None, pushed |-> FALSE,
               raised |-> "IndexError"]
         ELSE IF lt(info, minheap[1])
         THEN [heap |-> minheap, dropped |-> Some(info), pushed |-> FALSE,
               raised |-> "none"]
         ELSE [heap |-> heapreplace(minheap, info), dropped |-> Some(minheap[1]),
               pushed |-> FALSE, raised |-> "none"]
    ELSE [heap |-> heappush(minheap, info), dropped |-> None, pushed |-> TRUE,
          raised |-> "none"]

\* artifact_versions.values(), flattened: the order upload() visits records in
RECURSIVE values_flat(_)
values_flat(dict) ==
    IF dict = <<>> THEN <<>> ELSE Head(dict).versions \o values_flat(Tail(dict))

\* One iteration of the loop of _filtered_maven_versions: the walk yields the
\* next descriptor (in any order), the record is derived, filtered and offered
\* to its key's heap.
Scan ==
    /\ pc = "scan"
    /\ \E pom \in pending :
        /\ pending' = pending \ {pom}
        /\ IF Len(rpath_parts(pom)) < 3
           THEN \* rpath_parts[-3] raises IndexError inside the generator
                /\ pc' = "raised"
                /\ error' = "IndexError"
                /\ UNCHANGED <<artifact_versions, total, yielded, rejected, discarded>>
           ELSE LET info == m2_maven_info(self, st_mtime, pom)
                    key  == maven_artifact_key(info)
                    dict == defaultdict_get(artifact_versions, key)
                    k    == key_index(dict, key)
                    step == limit_step(self.limit, dict[k].versions, info)
                IN  /\ yielded' = yielded \cup {info}
                    /\ IF skipped(self, info)
                       THEN /\ rejected' = rejected \cup {info}
                            /\ UNCHANGED <<artifact_versions, total, discarded, pc, error>>
                       ELSE /\ rejected' = rejected
                            /\ artifact_versions' = [dict EXCEPT ![k].versions = step.heap]
                            /\ total' = IF step.pushed THEN total + 1 ELSE total
                            /\ discarded' = IF IsNone(step.dropped) THEN discarded
                                            ELSE discarded \cup {step.dropped.val}
                            /\ pc' = IF step.raised = "none" THEN pc ELSE "raised"
                            /\ error' = step.raised
    /\ UNCHANGED <<self, st_mtime, current, uploaded, heads, posted, handles>>

\* The walk is exhausted: _filtered_maven_versions returns and upload() starts
\* its loop over artifact_versions.values().
FilteredReturn ==
    /\ pc = "scan"
    /\ pending = {}
    /\ pc' = IF values_flat(artifact_versions) = <<>> THEN "done" ELSE "upload"
    /\ UNCHANGED <<self, st_mtime, pending, artifact_versions, total, current, error,
                   yielded, rejected, discarded, uploaded, heads, posted, handles>>

-----------------------------------------------------------------------------------------------------------------------------------------------------
(* The upload of one record: Nexus3Uploader._upload_single.                 *)
(*                                                                         *)
(* The remote server and the local disk are the environment: a HEAD        *)
(* request is answered with any of 200, 404 and 500 or raises (status 0),  *)
(* the POST is answered with 201 or 500 or raises (status 0), and opening  *)
(* a file succeeds or raises OSError. The operators below yield the set of *)
(* outcomes the environment allows.                                         *)

NoRequest == [sent |-> FALSE]

\* Nexus3Uploader.artifact_path
artifact_path(minfo, filename) ==
    LET m2_path == replace(minfo.group_id, ".", "/") \o <<"/">> \o minfo.artifact_id
                       \o <<"/">> \o minfo.version
    IN  m2_path \o <<"/">> \o filename

\* Faulty variant of _artifact_exists: only 200 counts as present, so that an
\* unclear status lets the file be uploaded.
artifact_exists_only_200(status_code) == status_code = 200

\* Nexus3Uploader._artifact_exists, on the status of its HEAD request
artifact_exists(status_code) ==
    IF status_code = 404 THEN FALSE
    ELSE IF status_code = 200 THEN TRUE
    ELSE TRUE

\* Faulty variant of need_upload: force_upload is not looked at, the server
\* is always asked.
need_upload_always_asks(cfg, minfo, filename) ==
    {[heads  |-> <<[path   |-> artifact_path(minfo, filename),
                    name   |-> filename,
                    status |-> status_code]>>,
      raised |-> status_code = 0,
      result |-> ~artifact_exists(status_code)] : status_code \in {0, 200, 404, 500}}

\* need_upload: force_upload or not _artifact_exists(...). The outcomes name
\* the HEAD request made (none when force_upload short-circuits the call),
\* whether it raised, and the value returned.
need_upload(cfg, minfo, filename) ==
    IF cfg.force_upload
    THEN {[heads |-> <<>>, raised |-> FALSE, result |-> TRUE]}
    ELSE {[heads  |-> <<[path   |-> artifact_path(minfo, filename),
                         name   |-> filename,
                         status |-> status_code]>>,
           raised |-> status_code = 0,
           result |-> ~artifact_exists(status_code)] : status_code \in {0, 200, 404, 500}}

\* encode_file: the file part, named maven2.asset<num>
encode_file(basename, num) == [asset |-> num, basename |-> basename]

\* payload.update({key: value})
update(payload, key, value) ==
    [k \in DOMAIN payload \cup {key} |-> IF k = key THEN value ELSE payload[k]]

\* the form fields added for an appended jar (the key is written with 2)
jar_params(payload, extension_num) ==
    update(payload, <<"extension", 2>>, S_jar)

\* Faulty variant of the classifier fields: the extension written as 'jar'
\* whatever the file's own suffix is.
classifier_params_jar(payload, extension_num, filename, classifier) ==
    update(update(payload, <<"extension", extension_num>>, S_jar),
           <<"classifier", extension_num>>, classifier)

\* the form fields added for an appended classifier file
classifier_params(payload, extension_num, filename, classifier) ==
    LET parts == split(filename, ".")
    IN  update(update(payload, <<"extension", extension_num>>, parts[Len(parts)]),
               <<"classifier", extension_num>>, classifier)

\* the files of one classifier of the record, as work items
classifier_items(classifier, filenames) ==
    [i \in 1..Len(filenames) |->
        [name |-> filenames[i], jar |-> FALSE, classifier |-> classifier]]

\* the files the two loops over self.classifiers and the record's classifier
\* files visit, in order
RECURSIVE classifier_loop(_, _)
classifier_loop(classifiers, minfo) ==
    IF classifiers = <<>> THEN <<>>
    ELSE IF Head(classifiers) \notin DOMAIN minfo.classifiers
    THEN classifier_loop(Tail(classifiers), minfo)
    ELSE classifier_items(Head(classifiers), minfo.classifiers[Head(classifiers)])
             \o classifier_loop(Tail(classifiers), minfo)

\* every file _upload_single may append after the descriptor, in order
candidates(cfg, minfo) ==
    (IF IsNone(minfo.jar) THEN <<>>
     ELSE <<[name |-> minfo.jar.val, jar |-> TRUE, classifier |-> <<>>]>>)
    \o classifier_loop(cfg.classifiers, minfo)

\* the locals after files.append(encode_file(...)) and the payload updates
appended(minfo, item, loc) ==
    [loc EXCEPT
       !.files = Append(@, encode_file(item.name, loc.extension_num)),
       !.opened = @ \cup {[path |-> minfo.path, name |-> item.name]},
       !.payload = IF item.jar
                   THEN jar_params(@, loc.extension_num)
                   ELSE classifier_params(@, loc.extension_num, item.name,
                                          item.classifier),
       !.extension_num = @ + 1]

\* The locals of _upload_single after the candidates are gone through, for
\* every way the environment may answer: need_upload decides each candidate,
\* and a needed file is opened and appended with the next number.
RECURSIVE append_needed(_, _, _, _)
append_needed(cfg, minfo, items, loc) ==
    IF items = <<>> THEN {loc}
    ELSE LET item == Head(items)
         IN  UNION {
               LET asked == [loc EXCEPT !.heads = @ \o need.heads]
               IN  IF need.raised
                   THEN {[asked EXCEPT !.raised = "ConnectionError"]}
                   ELSE IF ~need.result
                   THEN append_needed(cfg, minfo, Tail(items), asked)
                   ELSE {[asked EXCEPT !.raised = "OSError"]}
                        \cup append_needed(cfg, minfo, Tail(items),
                                           appended(minfo, item, asked))
               : need \in need_upload(cfg, minfo, item.name) }

\* Faulty variant of the submission: a request that would carry the
\* descriptor alone is not sent.
nexus_post_form_unless_empty(minfo, loc) ==
    IF Len(loc.files) = 1
    THEN {[heads |-> loc.heads, opened |-> loc.opened, raised |-> "none",
           post |-> NoRequest]}
    ELSE {[heads  |-> loc.heads,
           opened |-> loc.opened,
           raised |-> IF status_code = 0 THEN "ConnectionError" ELSE "none",
           post   |-> [sent |-> TRUE, minfo |-> minfo, files |-> loc.files,
                       form_params |-> loc.payload, status_code |-> status_code,
                       error_logged |-> status_code > 299]] : status_code \in {0, 201, 500}}

\* _nexus_post_form: the request sent with the locals, for every answer
nexus_post_form(minfo, loc) ==
    {[heads  |-> loc.heads,
      opened |-> loc.opened,
      raised |-> IF status_code = 0 THEN "ConnectionError" ELSE "none",
      post   |-> [sent |-> TRUE, minfo |-> minfo, files |-> loc.files,
                  form_params |-> loc.payload, status_code |-> status_code,
                  error_logged |-> status_code > 299]] : status_code \in {0, 201, 500}}

\* Nexus3Uploader._upload_single: every outcome of the call, naming what it
\* asked, opened, sent and raised
upload_single(cfg, minfo) ==
    LET start == [files   |-> <<encode_file(minfo.pom, 1)>>,
                  payload |-> update(update(<<>>, <<"generate-pom", 0>>,
                                            <<"f", "a", "l", "s", "e">>),
                                     <<"extension", 1>>, S_pom),
                  extension_num |-> 2,
                  heads   |-> <<>>,
                  opened  |-> {[path |-> minfo.path, name |-> minfo.pom]},
                  raised  |-> "none"]
        locs  == append_needed(cfg, minfo, candidates(cfg, minfo), start)
    IN  {[heads |-> <<>>, opened |-> {}, raised |-> "OSError", post |-> NoRequest]}
        \cup {[heads |-> loc.heads, opened |-> loc.opened, raised |-> loc.raised,
               post |-> NoRequest] : loc \in {l \in locs : l.raised # "none"}}
        \cup UNION {nexus_post_form(minfo, loc) : loc \in {l \in locs : l.raised = "none"}}

\* One iteration of the loop of upload(): the next record of
\* artifact_versions.values() is passed to _upload_single. An exception leaves
\* the loop and the run; the file objects the call opened are not closed.
UploadSingle ==
    /\ pc = "upload"
    /\ current < Len(values_flat(artifact_versions))
    /\ LET maven_info == values_flat(artifact_versions)[current + 1]
       IN  \E call \in upload_single(self, maven_info) :
                 /\ current' = current + 1
                 /\ uploaded' = Append(uploaded, maven_info)
                 /\ heads' = call.heads
                 /\ posted' = call.post
                 /\ handles' = handles \cup call.opened
                 /\ error' = call.raised
                 /\ pc' = IF call.raised # "none" THEN "raised"
                          ELSE IF current + 1 = Len(values_flat(artifact_versions))
                          THEN "done" ELSE "upload"
    /\ UNCHANGED <<self, st_mtime, pending, artifact_versions, total, yielded,
                   rejected, discarded>>

\* The runtime finalizes file objects nothing refers to any more. Python does
\* not say when: at once, later, or not before the process ends.
Collect ==
    /\ handles # {}
    /\ handles' = {}
    /\ UNCHANGED <<self, st_mtime, pending, artifact_versions, total, current, pc,
                   error, yielded, rejected, discarded, uploaded, heads, posted>>

-----------------------------------------------------------------------------
(* Repository trees and configurations.                                     *)

\* the files of one directory: dir/<base><suffix> for every suffix
layout(dir, base, suffixes) == {Append(dir, base \o s) : s \in suffixes}

Dot(s) == <<".">> \o s

W_dir(version) == <<<<"c">>, <<"a">>, <<"w">>, version>>

\* Version directories holding a descriptor only: three versions of c.a:w
\* and one of d:x.
SelectPool ==
    { layout(W_dir(<<"1", ".", "0">>), <<"w", "-", "1", ".", "0">>, {Dot(S_pom)}),
      layout(W_dir(<<"2">>), <<"w", "-", "2">>, {Dot(S_pom)}),
      layout(W_dir(<<"3">>), <<"w", "-", "3">>, {Dot(S_pom)}),
      layout(<<<<"d">>, <<"x">>, <<"1">>>>, <<"x", "-", "1">>, {Dot(S_pom)}) }

\* Directories at every depth: three well-formed ones of two groups (one
\* beside a checksum file, which is no descriptor), a descriptor two levels
\* below the root, one a single level below, and one at the root itself.
ScanPool ==
    { layout(W_dir(<<"1", ".", "0">>), <<"w", "-", "1", ".", "0">>, {Dot(S_pom)}),
      layout(W_dir(<<"2">>), <<"w", "-", "2">>, {Dot(S_pom)}),
      layout(<<<<"d">>, <<"x">>, <<"2">>>>, <<"x", "-", "2">>,
             {Dot(S_pom), Dot(S_pom) \o <<".", "s", "h", "a", "1">>}),
      layout(<<<<"w">>, <<"1">>>>, <<"w", "-", "1">>, {Dot(S_pom)}),
      layout(<<<<"1">>>>, <<"w", "-", "1">>, {Dot(S_pom)}),
      layout(<<>>, <<"r">>, {Dot(S_pom)}) }

\* Directories with assets: a jar with a classifier of both types, a jar with
\* another classifier, a descriptor with two classifiers and no jar, and a
\* descriptor alone.
UploadPool ==
    { layout(W_dir(<<"1", ".", "0">>), <<"w", "-", "1", ".", "0">>,
             {Dot(S_pom), Dot(S_jar), <<"-">> \o S_sources \o Dot(S_jar),
              <<"-">> \o S_sources \o Dot(S_exe)}),
      layout(W_dir(<<"2">>), <<"w", "-", "2">>,
             {Dot(S_pom), Dot(S_jar), <<"-">> \o S_javadoc \o Dot(S_jar)}),
      layout(W_dir(<<"3">>), <<"w", "-", "3">>,
             {Dot(S_pom), <<"-">> \o S_sources \o Dot(S_jar),
              <<"-">> \o S_javadoc \o Dot(S_jar)}),
      layout(<<<<"d">>, <<"x">>, <<"1">>>>, <<"x", "-", "1">>, {Dot(S_pom)}) }

\* the trees made of at most n directories of a pool
Trees(pool, n) == {UNION ds : ds \in {d \in SUBSET pool : Cardinality(d) <= n}}

\* the orders a set of two may be iterated in
Orders(a, b) == {<<a, b>>, <<b, a>>}

\* the limit argument: omitted (sys.maxsize), None as main passes it when
\* --limit is not given, or a number
Limits == {None, Some(sys_maxsize)} \cup {Some(k) : k \in 0..MaxLimit}

\* BaseNexusUploader.__init__, and the state upload() starts in
Construct(m2_path, mtimes, group, artifact, version, force_upload, classifiers, types, limit) ==
    /\ self = [m2_path                  |-> m2_path,
               include_group_pattern    |-> group,
               include_artifact_pattern |-> artifact,
               include_version_pattern  |-> version,
               force_upload             |-> force_upload,
               classifiers              |-> classifiers,
               types                    |-> types,
               limit                    |-> limit]
    /\ st_mtime = mtimes
    /\ pending = list_files(m2_path)
    /\ artifact_versions = <<>>
    /\ total = 0
    /\ current = 0
    /\ pc = "scan"
    /\ error = "none"
    /\ yielded = {}
    /\ rejected = {}
    /\ discarded = {}
    /\ uploaded = <<>>
    /\ heads = <<>>
    /\ posted = NoRequest
    /\ handles = {}

\* Runs that vary the modification times and the version limit.
InitSelect ==
    \E m2_path \in Trees(SelectPool, MaxPoms), limit \in Limits :
        \E mtimes \in [list_files(m2_path) -> 1..MaxTime] :
            Construct(m2_path, mtimes, None, None, None, FALSE,
                      <<S_sources, S_javadoc>>, <<S_jar, S_exe>>, limit)

\* Runs that vary the layout of the tree and the three patterns.
InitScan ==
    \E m2_path \in Trees(ScanPool, MaxPoms),
       group \in {None, Some(<<"a">>)},
       artifact \in {None, Some(<<"w">>)},
       version \in {None, Some(<<"1">>)} :
        Construct(m2_path, [p \in list_files(m2_path) |-> 1], group, artifact, version,
                  FALSE, <<S_sources, S_javadoc>>, <<S_jar, S_exe>>, Some(sys_maxsize))

\* Runs that vary the assets, force_upload and the iteration orders of the
\* classifier and type sets.
InitUpload ==
    \E m2_path \in Trees(UploadPool, MaxAssetDirs), force_upload \in BOOLEAN,
       classifiers \in Orders(S_sources, S_javadoc), types \in Orders(S_jar, S_exe) :
        Construct(m2_path, [p \in list_files(m2_path) |-> 1], None, None, None,
                  force_upload, classifiers, types, Some(sys_maxsize))

Next == Scan \/ FilteredReturn \/ UploadSingle \/ Collect

SpecSelect == InitSelect /\ [][Next]_vars

SpecScan == InitScan /\ [][Next]_vars

SpecUpload == InitUpload /\ [][Next]_vars

-----------------------------------------------------------------------------
(* What the claims speak of.                                                *)

\* the records that passed the three filters
Filtered == yielded \ rejected

\* the records held in the groups of artifact_versions
Retained ==
    {values_flat(artifact_versions)[i] : i \in 1..Len(values_flat(artifact_versions))}

SameKey(a, b) == a.group_id = b.group_id /\ a.artifact_id = b.artifact_id

Min(a, b) == IF a <= b THEN a ELSE b

\* how often a record was passed to _upload_single
TimesUploaded(info) == Cardinality({i \in 1..Len(uploaded) : uploaded[i] = info})

\* a pattern occurs in a field: some position of the field starts a copy of it
Occurs(pattern, field) ==
    \E start \in 1..(Len(field) + 1) :
        \A k \in 1..Len(pattern) :
            start + k - 1 <= Len(field) /\ field[start + k - 1] = pattern[k]

\* a supplied pattern does not occur in its field of the record
Mismatch(info) ==
    \/ ~IsNone(self.include_group_pattern)
         /\ ~Occurs(self.include_group_pattern.val, info.group_id)
    \/ ~IsNone(self.include_artifact_pattern)
         /\ ~Occurs(self.include_artifact_pattern.val, info.artifact_id)
    \/ ~IsNone(self.include_version_pattern)
         /\ ~Occurs(self.include_version_pattern.val, info.version)

\* the files that lie beside a record's descriptor in the tree
AssetsOnDisk(info) ==
    {p[Len(p)] : p \in {q \in self.m2_path : SubSeq(q, 1, Len(q) - 1) = info.path}}
        \ {info.pom}

\* the names of the file parts of the latest POST after the descriptor
SentAssets == {posted.files[i].basename : i \in 2..Len(posted.files)}

\* the statuses the HEAD requests of the latest call got for a file
HeadStatuses(name) == {heads[i].status : i \in {j \in 1..Len(heads) : heads[j].name = name}}

\* the name of a record's primary asset: the descriptor's with .jar for .pom
PrimaryName(info) == SubSeq(info.pom, 1, Len(info.pom) - 4) \o <<".">> \o S_jar

-----------------------------------------------------------------------------
(* C1: with a limit K >= 1, in whatever order the records arrive, the group *)
(* kept for a key holds min(K, n) of the key's n filtered records, none of  *)
(* them older than a filtered record of the key left out; the records left  *)
(* out are discarded, and no discarded record is passed to _upload_single.  *)
C1_TopKByMtime ==
    (~IsNone(self.limit) /\ self.limit.val >= 1) =>
        /\ Cardinality(Retained) = Len(values_flat(artifact_versions))
        /\ Retained \subseteq Filtered
        /\ \A f \in Filtered :
              LET F == {r \in Filtered : SameKey(r, f)}
                  G == {r \in Retained : SameKey(r, f)}
              IN  /\ Cardinality(G) = Min(self.limit.val, Cardinality(F))
                  /\ \A g \in G : \A d \in F \ G : g.mtime >= d.mtime
                  /\ F \ G \subseteq discarded
        /\ Retained \cap discarded = {}
        /\ \A i \in 1..Len(uploaded) :
              uploaded[i] \in Retained /\ uploaded[i] \notin discarded

\* a finished run with limit 2 in which a key of three records lost its
\* oldest one and the two kept were uploaded
C1_Witness ==
    /\ ~IsNone(self.limit) /\ self.limit.val = 2
    /\ pc = "done"
    /\ \E d \in discarded :
          /\ Cardinality({r \in Filtered : SameKey(r, d)}) = 3
          /\ \E g \in Retained : SameKey(g, d) /\ g.mtime > d.mtime
          /\ Cardinality({i \in 1..Len(uploaded) : SameKey(uploaded[i], d)}) = 2

(* C2: with no limit configured (the argument omitted, or None as main      *)
(* passes it without --limit) the selection raises no error, and a finished *)
(* run has passed every filtered record to _upload_single exactly once.     *)
C2_NoLimitRetainsAll ==
    (IsNone(self.limit) \/ self.limit.val = sys_maxsize) =>
        /\ error # "TypeError"
        /\ pc = "done" => \A f \in Filtered : TimesUploaded(f) = 1

(* C3: a yielded record is rejected exactly when a supplied pattern does    *)
(* not occur in its field; a rejected record is in no group, is not counted *)
(* in total and is never passed to _upload_single.                          *)
C3_FilterRejects ==
    /\ \A info \in yielded : info \in rejected <=> Mismatch(info)
    /\ rejected \cap Retained = {}
    /\ total = Cardinality(Retained)
    /\ total = Cardinality(yielded \ rejected)
    /\ \A r \in rejected : TimesUploaded(r) = 0

\* a finished run that rejected a record for its version alone, and one in
\* whose group the pattern occurs but not at its start was uploaded
C3_Witness ==
    /\ pc = "done"
    /\ ~IsNone(self.include_group_pattern)
    /\ ~IsNone(self.include_version_pattern)
    /\ \E r \in rejected :
          /\ Occurs(self.include_group_pattern.val, r.group_id)
          /\ ~Occurs(self.include_version_pattern.val, r.version)
    /\ \E i \in 1..Len(uploaded) :
          uploaded[i].group_id[1] # self.include_group_pattern.val[1]

(* C4: without force_upload, each asset beside the descriptor got one HEAD  *)
(* request, on <groupPath>/<artifactId>/<version>/<filename>, and is a file *)
(* part of the record's POST exactly when that request answered 404.        *)
C4_IncludedIffAbsent ==
    (~self.force_upload /\ posted.sent) =>
        /\ SentAssets \subseteq AssetsOnDisk(posted.minfo)
        /\ \A name \in AssetsOnDisk(posted.minfo) :
              /\ Cardinality({i \in 1..Len(heads) : heads[i].name = name}) = 1
              /\ \A i \in 1..Len(heads) :
                    heads[i].name = name =>
                        heads[i].path = join(<<"/">>, Append(posted.minfo.path, name))
              /\ name \in SentAssets <=> HeadStatuses(name) = {404}

\* a POST of a record with three assets, answered 404, 200 and 500
C4_Witness ==
    /\ ~self.force_upload
    /\ posted.sent
    /\ Cardinality(AssetsOnDisk(posted.minfo)) = 3
    /\ {heads[i].status : i \in 1..Len(heads)} = {200, 404, 500}
    /\ Cardinality(SentAssets) = 1

(* C5: with force_upload no HEAD request is made, and every POST carries    *)
(* the descriptor and every asset that lies beside it.                      *)
C5_ForceSendsAll ==
    self.force_upload =>
        /\ heads = <<>>
        /\ posted.sent =>
              /\ posted.files[1].basename = posted.minfo.pom
              /\ SentAssets = AssetsOnDisk(posted.minfo)
              /\ Len(posted.files) = 1 + Cardinality(AssetsOnDisk(posted.minfo))

\* a forced POST of a descriptor, its jar and a classifier in both types
C5_Witness ==
    /\ self.force_upload
    /\ posted.sent
    /\ Len(posted.files) = 4
    /\ pc = "done"

(* C6: the file parts of a POST are numbered 1..N in the order appended,    *)
(* the descriptor first; the form holds generate-pom, an extension field    *)
(* for each of 1..N, and a classifier field for exactly the parts that are  *)
(* classifier files; each extension is the suffix of its own file and each  *)
(* classifier the one its file is named after.                              *)
C6_ContiguousNumbering ==
    posted.sent =>
        LET N      == Len(posted.files)
            name(i) == posted.files[i].basename
            form   == posted.form_params
            cls    == {i \in 2..N : name(i) # PrimaryName(posted.minfo)}
        IN  /\ \A i \in 1..N : posted.files[i].asset = i
            /\ name(1) = posted.minfo.pom
            /\ DOMAIN form = {<<"generate-pom", 0>>}
                                \cup {<<"extension", i>> : i \in 1..N}
                                \cup {<<"classifier", i>> : i \in cls}
            /\ form[<<"generate-pom", 0>>] = <<"f", "a", "l", "s", "e">>
            /\ \A i \in 1..N :
                  /\ endswith(name(i), <<".">> \o form[<<"extension", i>>])
                  /\ \A k \in 1..Len(form[<<"extension", i>>]) :
                        form[<<"extension", i>>][k] # "."
            /\ \A i \in cls :
                  endswith(name(i), <<"-">> \o form[<<"classifier", i>>]
                                       \o <<".">> \o form[<<"extension", i>>])

\* a POST whose jar was skipped: the classifier's jar is asset 2 and its exe
\* asset 3
C6_Witness ==
    /\ posted.sent
    /\ ~self.force_upload
    /\ HeadStatuses(PrimaryName(posted.minfo)) = {200}
    /\ Len(posted.files) = 3
    /\ posted.form_params[<<"extension", 2>>] # posted.form_params[<<"extension", 3>>]

(* C7: without force_upload, when every HEAD request answered 200 the POST  *)
(* carries the descriptor as asset 1 and nothing else; every call of        *)
(* _upload_single that raised nothing sent its record's POST; and a         *)
(* finished run has called it once for each selected record, in order.      *)
C7_DescriptorOnlyResubmission ==
    /\ (~self.force_upload /\ posted.sent
          /\ \A i \in 1..Len(heads) : heads[i].status = 200) =>
            posted.files = <<[asset |-> 1, basename |-> posted.minfo.pom]>>
    /\ (Len(uploaded) > 0 /\ error = "none") =>
            posted.sent /\ posted.minfo = uploaded[Len(uploaded)]
    /\ pc = "done" => uploaded = values_flat(artifact_versions)

\* a finished run of two records whose last record has assets, all reported
\* present, and whose POST carried the descriptor alone
C7_Witness ==
    /\ pc = "done"
    /\ ~self.force_upload
    /\ Len(uploaded) = 2
    /\ Len(heads) >= 2
    /\ \A i \in 1..Len(heads) : heads[i].status = 200
    /\ posted.sent /\ posted.status_code = 201
    /\ Len(posted.files) = 1

(* C8: a failure while one record is uploaded (a POST answered above 299, a *)
(* request that raises, a file that cannot be opened) does not keep the     *)
(* following records from their own attempt: a run that has ended has       *)
(* passed every selected record to _upload_single.                          *)
C8_FailureDoesNotBlock ==
    (pc = "done" \/ (pc = "raised" /\ error \in {"OSError", "ConnectionError"})) =>
        \A r \in Retained : TimesUploaded(r) = 1

(* C9: a descriptor with fewer than three relative path segments does not   *)
(* end the scan: it becomes a record, and so do the descriptors after it.   *)
C9_MalformedLayoutNotFatal ==
    /\ error # "IndexError"
    /\ \A pom \in list_files(self.m2_path) \ pending :
          \E info \in yielded :
              info.path = SubSeq(pom, 1, Len(pom) - 1) /\ info.pom = pom[Len(pom)]

(* C10: once _upload_single has returned or raised for a record, no file    *)
(* object that encode_file opened for it is still open.                     *)
C10_HandlesReleased == handles = {}

-----------------------------------------------------------------------------
(* The step that offers one record to a full group.                         *)

\* the members a dict holds for a record's key
Members(dict, info) ==
    {values_flat(dict)[i] : i \in {j \in 1..Len(values_flat(dict)) :
                                       SameKey(values_flat(dict)[j], info)}}

\* the least modification time of a non-empty group
MinTime(G) == CHOOSE t \in {g.mtime : g \in G} : \A g \in G : t <= g.mtime

\* the record the step yields
Candidate == CHOOSE c \in yielded' \ yielded : TRUE

\* the step yields a record that passes the filters and finds its key's group
\* holding limit members already
OffersToFullGroup ==
    /\ yielded' # yielded
    /\ Candidate \notin rejected'
    /\ ~IsNone(self.limit) /\ self.limit.val >= 1
    /\ Cardinality(Members(artifact_versions, Candidate)) >= self.limit.val

\* the candidate takes the place of a member of least modification time
Inserted ==
    \E e \in Members(artifact_versions, Candidate) :
        /\ e.mtime = MinTime(Members(artifact_versions, Candidate))
        /\ Members(artifact_versions', Candidate)
              = (Members(artifact_versions, Candidate) \ {e}) \cup {Candidate}
        /\ discarded' = discarded \cup {e}

\* the candidate is dropped and the dict stays as it is
Dropped ==
    /\ artifact_versions' = artifact_versions
    /\ discarded' = discarded \cup {Candidate}

(* C11 as stated: offered to a full group, a candidate is inserted in place *)
(* of the minimum only if its modification time is strictly greater than    *)
(* the minimum's; with a time less than or equal to it the candidate is     *)
(* discarded and the group stays unchanged.                                 *)
C11_InsertedOnlyIfGreater ==
    [][OffersToFullGroup =>
          IF Candidate.mtime > MinTime(Members(artifact_versions, Candidate))
          THEN Inserted ELSE Dropped]_vars

(* C11 as the code has it: offered to a full group, a candidate is inserted *)
(* in place of a minimum when its modification time is greater than or      *)
(* equal to the minimum's; with a strictly smaller time the candidate is    *)
(* discarded and the group stays unchanged.                                 *)
C11_InsertedUnlessLess ==
    [][OffersToFullGroup =>
          IF Candidate.mtime >= MinTime(Members(artifact_versions, Candidate))
          THEN Inserted ELSE Dropped]_vars

\* limit 1 and a key of two records of equal modification time: the second
\* to arrive tied with the first and took its place
C11_Witness ==
    /\ ~IsNone(self.limit) /\ self.limit.val = 1
    /\ \E d \in discarded : \E g \in Retained :
          /\ SameKey(d, g)
          /\ d.mtime = g.mtime
          /\ {r \in Filtered : SameKey(r, d)} = {d, g}

-----------------------------------------------------------------------------
(* Coordinates and the place of the descriptor.                             *)

\* the segments of a group path written with dots, built from the right
RECURSIVE Dotted(_)
Dotted(segments) ==
    IF segments = <<>> THEN <<>>
    ELSE IF Len(segments) = 1 THEN segments[1]
    ELSE Dotted(SubSeq(segments, 1, Len(segments) - 1))
             \o <<".">> \o segments[Len(segments)]

\* version, artifactId and groupId are the last, the last but one and the
\* earlier segments of the directory the descriptor lies in
DerivedFromPath(info) ==
    /\ Append(info.path, info.pom) \in list_files(self.m2_path)
    /\ Len(info.path) >= 2
    /\ info.version = info.path[Len(info.path)]
    /\ info.artifact_id = info.path[Len(info.path) - 1]
    /\ info.group_id = Dotted(SubSeq(info.path, 1, Len(info.path) - 2))

(* C12 as stated: every record's coordinates are derived from its path, and *)
(* a record's groupId is empty only when its descriptor lies directly at    *)
(* the repository root, never for a descriptor deeper in the tree.          *)
C12_EmptyGroupOnlyAtRoot ==
    \A info \in yielded :
        /\ DerivedFromPath(info)
        /\ info.group_id = <<>> => info.path = <<>>

(* C12 as the code has it: every record's coordinates are derived from its  *)
(* path, and a record's groupId is empty exactly when its descriptor lies   *)
(* in <artifactId>/<version>/ directly under the root (three relative path  *)
(* segments), never for a descriptor deeper in the tree.                    *)
C12_EmptyGroupAtDepthThree ==
    \A info \in yielded :
        /\ DerivedFromPath(info)
        /\ info.group_id = <<>> <=> Len(info.path) = 2

\* a finished scan that yielded a record without a group, from w/1/, and one
\* with a group of two segments
C12_Witness ==
    /\ pending = {}
    /\ \E info \in yielded : info.group_id = <<>> /\ Len(info.path) = 2
    /\ \E info \in yielded : info.group_id = <<"c", ".", "a">>

====
